---- MODULE Spec2Model ----
(***************************************************************************)
(* State-machine model of the aitube2 websocket dispatch core:             *)
(*   src/api.py       websocket_handler, the three queue processors and    *)
(*                    process_generic_request                               *)
(*   src/api_core.py  EndpointManager, ChatRoom, VideoGenerationAPI         *)
(*                                                                         *)
(* asyncio is cooperative: a coroutine runs without interruption between   *)
(* two suspension points.  Every action below is one such uninterrupted    *)
(* run.  Suspension points of the code: Queue.get on an empty queue,       *)
(* asyncio.sleep, asyncio.wait_for, the collaborator calls (executor or    *)
(* HTTP) and the drain that may follow a websocket write.  Lock.acquire on *)
(* a free lock and Queue.put on an unbounded queue return without          *)
(* suspending, so the critical sections of get_endpoint run inside one     *)
(* action.  A websocket write takes effect when send_json is called; the   *)
(* suspension, if any, comes after the write.                              *)
(***************************************************************************)
EXTENDS Integers, Sequences, FiniteSets, TLC

(* ------------------------------ bounds -------------------------------- *)

\* number of endpoints, len(VIDEO_ROUND_ROBIN_ENDPOINT_URLS)
K == 2

\* connections the specification of the endpoint pool opens
PoolConns == 2

\* generate_video requests the connections submit in all
PoolReqs == 3

\* asyncio.sleep(0.5) rounds after which time.time() - start_time exceeds
\* max_wait_time (20 rounds of 0.5 s for the default of 10 s; scaled)
MaxWaitSleeps == 2

\* connections the specification of the lanes opens
LaneConns == 1

\* requests a connection submits in the specification of the lanes
LaneReqs == 2

\* requests a connection submits in the specification of the sequential lanes
SeqReqs == 3

\* connections the specification of the chat rooms opens
ChatConns == 3

\* chat requests the connections submit in all in the specification of the
\* chat rooms
ChatReqs == 4

\* chat messages the connection posts in the specification of the bounded
\* histories: enough to fill the room history and the event log and go on
HistReqs == 102

\* the requestIds at which that connection may send join_chat instead: one
\* while the history is short, one when it is longer than a replay
JoinEarly == 3

JoinLate == 60

\* malformed TEXT messages a connection sends
BadReqs == 1

\* connections and requests (in all) of the specification with fairness
LiveConns == 2

LiveReqs == 3

(* ----------------------------- universe ------------------------------- *)

Max(a, b) == IF a >= b THEN a ELSE b

MaxConns == Max(PoolConns, Max(LaneConns, ChatConns))

MaxReq == Max(Max(PoolReqs, SeqReqs), Max(LaneReqs, ChatReqs))

Conns == 1..MaxConns

ReqIds == 1..MaxReq

Endpoints == 1..K

\* topic ids (videoId) that requests carry
Topics == {"T"}

\* data.get('videoId') of a request that carries none
NoVideoId == ""

\* a videoId that is truthy and unhashable (a JSON array)
BadVideoId == "[]"

\* the absent value of a local variable (endpoint = None, no data yet)
None == 0

NoData == [action |-> "none", requestId |-> 0, videoId |-> NoVideoId, arg |-> "ok"]

\* a generation task is named by the connection and request that spawned it
TaskIds == Conns \X ReqIds

VARIABLES
    sess,            \* websocket_handler: "none" | "active" | "closed"
    wsOpen,          \* the transport of the connection accepts writes
    rx,              \* receive loop: [pc, data]
    nextId,          \* requestId the client of the connection uses next
    chat_queue,      \* websocket_handler.chat_queue
    video_queue,     \* websocket_handler.video_queue
    search_queue,    \* websocket_handler.search_queue
    chatW,           \* process_chat_queue: [pc, data, visited, start]
    searchW,         \* process_search_queue: [pc, data]
    videoW,          \* process_video_queue: "none" | "poll" | "sleep" | "cancelled"
    active_tasks,    \* process_video_queue.active_tasks
    task,            \* process_single_request tasks: [pc, data, endpoint, waited]
    endpoint_queue,  \* EndpointManager.endpoint_queue
    busy,            \* Endpoint.busy
    chat_rooms,      \* VideoGenerationAPI.chat_rooms: [messages, connected_clients]
    video_events,    \* VideoGenerationAPI.video_events
    sent,            \* frames written to the connection, in order
    submitted,       \* history: the requests the connection has read, in order
    finished,        \* history: requestIds whose processing has run to its end
    posted,          \* history: the posts, each with the members at call time
    failed           \* history: the deliveries of a post that raised

vars == <<sess, wsOpen, rx, nextId, chat_queue, video_queue, search_queue,
          chatW, searchW, videoW, active_tasks, task, endpoint_queue, busy,
          chat_rooms, video_events, sent, submitted, finished, posted,
          failed>>

sessVars == <<sess, wsOpen, rx, nextId>>
queueVars == <<chat_queue, video_queue, search_queue>>
poolVars == <<endpoint_queue, busy>>
roomVars == <<chat_rooms, video_events>>
histVars == <<submitted, finished, posted, failed>>

(* ------------------------------ frames -------------------------------- *)

\* a response envelope: action, requestId, success, the error message class
\* and the messages a join_chat response replays
Response(action, requestId, success, error) ==
    [action |-> action, requestId |-> requestId, success |-> success,
     error |-> error, broadcast |-> FALSE, from |-> None, messages |-> <<>>]

\* the frame handle_chat_message writes to the other members:
\* {'action': 'chat_message', 'broadcast': True, **message_data}
Broadcast(data, sender) ==
    [action |-> "chat_message", requestId |-> data.requestId, success |-> TRUE,
     error |-> "", broadcast |-> TRUE, from |-> sender, messages |-> <<>>]

\* ws.send_json(frame) on connection c: the frame is written when the transport
\* is open, and the call raises when it is not
SendOk(c) == wsOpen[c]

Written(s, c, frame) == [s EXCEPT ![c] = Append(@, frame)]

\* a processor whose writes are dropped
SendNothing(s, c, frame) == s

\* a processor that writes its response twice
SendTwice(s, c, frame) ==
    IF SendOk(c) THEN Written(Written(s, c, frame), c, frame) ELSE s

\* the pattern of every processor: send the result, and when that raises send
\* an error response, and when that raises too only log
SendResult(s, c, frame) == IF SendOk(c) THEN Written(s, c, frame) ELSE s

(* --------------------------- EndpointManager -------------------------- *)

\* initialize_endpoints: every endpoint is queued once, in id order, not busy
InitQueue == [i \in 1..K |-> i]

\* positions of the queue whose endpoint has busy = False
FreePos(q, b) == {i \in 1..Len(q) : ~b[q[i]]}

MinOf(S) == CHOOSE x \in S : \A y \in S : x <= y

\* get_endpoint, lines 136-144, run until the loop breaks: endpoints found
\* busy are put back at the tail, the first one that is not busy is taken
TakePos(q, b) == MinOf(FreePos(q, b))

\* an acquire that leaves the endpoint in the queue
QueueKept(q, i) == q

QueueAfterTake(q, i) == SubSeq(q, i + 1, Len(q)) \o SubSeq(q, 1, i - 1)

\* an acquire that forgets the flag
MarkNothing(b, e) == b

MarkBusy(b, e) == [b EXCEPT ![e] = TRUE]

\* a release that leaves the flag set
ReleasedStillBusy(b, e) == b

\* the finally block of get_endpoint, lines 152-156
ReleasedBusy(b, e) == [b EXCEPT ![e] = FALSE]

\* a release that puts the endpoint back twice
ReleasedTwice(q, e) == Append(Append(q, e), e)

ReleasedQueue(q, e) == Append(q, e)

\* a wait without a bound
TimedOutNever(w) == FALSE

\* time.time() - start_time > max_wait_time, after w sleeps of 0.5 s
TimedOut(w) == w >= MaxWaitSleeps

(* ------------------------------- Init --------------------------------- *)

IdleWorker == [pc |-> "none", data |-> NoData, visited |-> {}, start |-> 0]

NoTask == [pc |-> "none", data |-> NoData, endpoint |-> None, waited |-> 0]

EmptyRoom == [messages |-> <<>>, connected_clients |-> {}]

\* init_app: the VideoGenerationAPI and its EndpointManager exist, no
\* connection has been accepted yet
Init ==
    /\ sess = [c \in Conns |-> "none"]
    /\ wsOpen = [c \in Conns |-> FALSE]
    /\ rx = [c \in Conns |-> [pc |-> "none", data |-> NoData]]
    /\ nextId = [c \in Conns |-> 1]
    /\ chat_queue = [c \in Conns |-> <<>>]
    /\ video_queue = [c \in Conns |-> <<>>]
    /\ search_queue = [c \in Conns |-> <<>>]
    /\ chatW = [c \in Conns |-> IdleWorker]
    /\ searchW = [c \in Conns |-> [pc |-> "none", data |-> NoData]]
    /\ videoW = [c \in Conns |-> "none"]
    /\ active_tasks = [c \in Conns |-> {}]
    /\ task = [t \in TaskIds |-> NoTask]
    /\ endpoint_queue = InitQueue
    /\ busy = [e \in Endpoints |-> FALSE]
    /\ chat_rooms = [v \in Topics |-> EmptyRoom]
    /\ video_events = [v \in Topics |-> <<>>]
    /\ sent = [c \in Conns |-> <<>>]
    /\ submitted = [c \in Conns |-> <<>>]
    /\ finished = [c \in Conns |-> {}]
    /\ posted = {}
    /\ failed = {}

(* ------------------------- websocket_handler -------------------------- *)

ChatActions == {"join_chat", "leave_chat", "chat_message"}

\* lines 254-274: the connection is prepared, its three queues are created
\* and its three processors are started.  Connections are numbered in the
\* order they are accepted.
Connect(c) ==
    /\ sess[c] = "none"
    /\ \A b \in Conns : b < c => sess[b] # "none"
    /\ sess' = [sess EXCEPT ![c] = "active"]
    /\ wsOpen' = [wsOpen EXCEPT ![c] = TRUE]
    /\ rx' = [rx EXCEPT ![c] = [pc |-> "recv", data |-> NoData]]
    /\ chatW' = [chatW EXCEPT ![c].pc = "get"]
    /\ searchW' = [searchW EXCEPT ![c].pc = "get"]
    /\ videoW' = [videoW EXCEPT ![c] = "poll"]
    /\ UNCHANGED <<nextId, queueVars, active_tasks, task, poolVars, roomVars,
                   sent, histVars>>

\* process_generic_request, lines 31-71, up to its first suspension: the
\* frame it writes at once, if any
GenericNow(d) ==
    CASE d.action = "heartbeat" -> Response("heartbeat", d.requestId, TRUE, "")
      [] d.action \in {"generate_caption", "generate_thumbnail"} ->
            Response(d.action, d.requestId, FALSE, "Missing title or description")
      [] OTHER -> Response(d.action, d.requestId, FALSE, "Unknown action")

\* a receive path that calls the collaborator without looking at the params
GenericAwaitsUnchecked(d) ==
    d.action \in {"generate_caption", "generate_thumbnail"}

\* the request is passed to api.generate_caption / api.generate_thumbnail
GenericAwaits(d) ==
    d.action \in {"generate_caption", "generate_thumbnail"} /\ d.arg = "ok"

\* a put at the front of the queue
PutFirst(q, c, d, cond) == IF cond THEN [q EXCEPT ![c] = <<d>> \o @] ELSE q

\* the queue a TEXT message is routed to, lines 284-291
PutIf(q, c, d, cond) == IF cond THEN [q EXCEPT ![c] = Append(@, d)] ELSE q

\* a routing that drops the actions it does not know
QueuedOrDropped(d) ==
    d.action \notin {"heartbeat", "generate_caption", "generate_thumbnail"}

Queued(d) == d.action \in ChatActions \cup {"generate_video", "search"}

\* a receive loop that reads the next message while the request it handed
\* to process_generic_request is still awaited
ReadingWhileAwaiting(r) == r.pc \in {"recv", "generic"}

\* the receive loop is at `async for msg in ws` (line 277); it comes back to
\* it only when `await process_generic_request` (line 291) has returned
Reading(r) == r.pc = "recv"

\* lines 277-291: one TEXT message is read and routed; d is json.loads(msg.data)
Receive(c, d) ==
    /\ sess[c] = "active" /\ Reading(rx[c]) /\ wsOpen[c]
    /\ d.requestId = nextId[c]
    /\ nextId' = [nextId EXCEPT ![c] = @ + 1]
    /\ submitted' = [submitted EXCEPT ![c] = Append(@, d)]
    /\ chat_queue' = PutIf(chat_queue, c, d, d.action \in ChatActions)
    /\ video_queue' = PutIf(video_queue, c, d, d.action = "generate_video")
    /\ search_queue' = PutIf(search_queue, c, d, d.action = "search")
    /\ IF Queued(d)
         THEN UNCHANGED <<rx, sent, finished>>
         ELSE IF GenericAwaits(d)
                THEN /\ rx' = [rx EXCEPT ![c] = [pc |-> "generic", data |-> d]]
                     /\ UNCHANGED <<sent, finished>>
                ELSE /\ sent' = SendResult(sent, c, GenericNow(d))
                     /\ finished' = [finished EXCEPT ![c] = @ \cup {d.requestId}]
                     /\ UNCHANGED rx
    /\ UNCHANGED <<sess, wsOpen, chatW, searchW, videoW, active_tasks, task,
                   poolVars, roomVars, posted, failed>>

\* lines 46-52 and 62-68: the collaborator has returned (generate_caption and
\* generate_thumbnail catch their own failures), the response is written
GenericDone(c) ==
    /\ rx[c].pc = "generic"
    /\ sent' = SendResult(sent, c,
                  Response(rx[c].data.action, rx[c].data.requestId, TRUE, ""))
    /\ finished' = [finished EXCEPT ![c] = @ \cup {rx[c].data.requestId}]
    /\ rx' = [rx EXCEPT ![c] = [pc |-> "recv", data |-> NoData]]
    /\ UNCHANGED <<sess, wsOpen, nextId, queueVars, chatW, searchW, videoW,
                   active_tasks, task, poolVars, roomVars, submitted, posted, failed>>

\* the transport fails or the peer goes away: writes raise from now on
Break(c) ==
    /\ sess[c] = "active" /\ wsOpen[c]
    /\ wsOpen' = [wsOpen EXCEPT ![c] = FALSE]
    /\ UNCHANGED <<sess, rx, nextId, queueVars, chatW, searchW, videoW,
                   active_tasks, task, poolVars, roomVars, sent, histVars>>

\* a teardown that leaves the processor running
StillRunning(w) == w

\* task.cancel() of a queue processor, lines 306-307
Cancelled(w) == [w EXCEPT !.pc = "cancelled"]

\* lines 301-311: a CLOSE or ERROR message ends the receive loop; the three
\* processors are cancelled and awaited.  The tasks process_video_queue
\* spawned are not in background_tasks and keep running.
Close(c) ==
    /\ sess[c] = "active" /\ rx[c].pc = "recv"
    /\ sess' = [sess EXCEPT ![c] = "closed"]
    /\ wsOpen' = [wsOpen EXCEPT ![c] = FALSE]
    /\ rx' = [rx EXCEPT ![c].pc = "closed"]
    /\ chatW' = [chatW EXCEPT ![c] = Cancelled(@)]
    /\ searchW' = [searchW EXCEPT ![c] = Cancelled(@)]
    /\ videoW' = [videoW EXCEPT ![c] = "cancelled"]
    /\ UNCHANGED <<nextId, queueVars, active_tasks, task, poolVars, roomVars,
                   sent, histVars>>

\* TEXT messages that are not a JSON object: "text" is not JSON at all
\* (json.loads raises), "value" is JSON of another type (a list, a string, a
\* number, null), on which data.get raises AttributeError
Payloads == {"text", "value"}

Malformed(p) ==
    [action |-> "malformed", requestId |-> None, videoId |-> NoVideoId, arg |-> p]

RECURSIVE LastAction(_)
\* line 297: the 'action' of the error frame is read from the local `data`,
\* which still holds the last payload json.loads returned, or is 'unknown'
\* when no payload has been parsed yet
LastAction(reqs) ==
    IF reqs = <<>> THEN "unknown"
    ELSE IF reqs[Len(reqs)].action # "malformed" THEN reqs[Len(reqs)].action
    ELSE LastAction(SubSeq(reqs, 1, Len(reqs) - 1))

\* lines 277-299 and 304-311 for a malformed TEXT message.  "text": the
\* handler of line 293 writes an error frame without requestId and the loop
\* goes on.  "value": `data` is bound, so the handler evaluates data.get
\* again at line 297; the AttributeError it raises leaves the `async for`,
\* the finally clause cancels the three processors and the handler ends.
ReceiveBad(c, p) ==
    /\ sess[c] = "active" /\ rx[c].pc = "recv" /\ wsOpen[c]
    /\ Len(SelectSeq(submitted[c], LAMBDA x : x.action = "malformed")) < BadReqs
    /\ submitted' = [submitted EXCEPT ![c] = Append(@, Malformed(p))]
    /\ IF p = "text"
         THEN /\ sent' = SendResult(sent, c,
                     Response(LastAction(submitted[c]), None, FALSE,
                              "Error processing message"))
              /\ UNCHANGED <<sess, wsOpen, rx, chatW, searchW, videoW>>
         ELSE /\ sess' = [sess EXCEPT ![c] = "closed"]
              /\ wsOpen' = [wsOpen EXCEPT ![c] = FALSE]
              /\ rx' = [rx EXCEPT ![c].pc = "raised"]
              /\ chatW' = [chatW EXCEPT ![c] = Cancelled(@)]
              /\ searchW' = [searchW EXCEPT ![c] = Cancelled(@)]
              /\ videoW' = [videoW EXCEPT ![c] = "cancelled"]
              /\ UNCHANGED sent
    /\ UNCHANGED <<nextId, queueVars, active_tasks, task, poolVars, roomVars,
                   finished, posted, failed>>

(* ------------------------ process_search_queue ------------------------ *)

\* a processor that takes the next item while one is still being handled
ReadyWhileBusy(w) == w.pc \in {"get", "call", "bcast"}

\* the processor of a sequential lane is at `data = await queue.get()`
\* (api.py lines 89 and 159): the loop comes back to it only when the
\* handling of the item before has returned or raised
Ready(w) == w.pc = "get"

\* lines 89-104 and 140-154, up to the first suspension.  query.strip()
\* raises on a query that is not a string (arg = "bad"); the handler of line
\* 140 answers 'Internal server error'.  An empty query is answered at once.
SearchNow(d) ==
    IF d.arg = "bad"
      THEN Response("search", d.requestId, FALSE, "Internal server error")
      ELSE Response("search", d.requestId, FALSE, "No search query provided")

SearchGet(c) ==
    /\ Ready(searchW[c]) /\ search_queue[c] # <<>>
    /\ LET d == Head(search_queue[c]) IN
        /\ search_queue' = [search_queue EXCEPT ![c] = Tail(@)]
        /\ IF d.arg = "ok"
             THEN /\ searchW' = [searchW EXCEPT ![c] = [pc |-> "call", data |-> d]]
                  /\ UNCHANGED <<sent, finished>>
             ELSE /\ sent' = SendResult(sent, c, SearchNow(d))
                  /\ finished' = [finished EXCEPT ![c] = @ \cup {d.requestId}]
                  /\ UNCHANGED searchW
    /\ UNCHANGED <<sessVars, chat_queue, video_queue, chatW, videoW,
                   active_tasks, task, poolVars, roomVars, submitted, posted, failed>>

\* lines 107-138: api.search_video has returned a record (found) or None; it
\* catches its own failures (api_core.py lines 278-280)
SearchDone(c, found) ==
    /\ searchW[c].pc = "call"
    /\ LET d == searchW[c].data IN
        /\ sent' = SendResult(sent, c,
                      IF found THEN Response("search", d.requestId, TRUE, "")
                      ELSE Response("search", d.requestId, FALSE, "No results found"))
        /\ finished' = [finished EXCEPT ![c] = @ \cup {d.requestId}]
    /\ searchW' = [searchW EXCEPT ![c] = [pc |-> "get", data |-> NoData]]
    /\ UNCHANGED <<sessVars, queueVars, chatW, videoW, active_tasks, task,
                   poolVars, roomVars, submitted, posted, failed>>

(* ------------------- process_chat_queue and ChatRoom ------------------ *)

\* _add_event, lines 182-187
event_history_limit == 50

\* an append that is lost
AddEventDropped(log, ev) == log

AddEvent(log, ev) ==
    IF Len(log) + 1 > event_history_limit THEN Tail(Append(log, ev))
    ELSE Append(log, ev)

\* ChatRoom.max_history, line 162
max_history == 100

\* an append to the history that is lost
AddMessageLost(msgs, m) == msgs

\* a full history that refuses the new message
AddMessageKeepOldest(msgs, m) ==
    IF Len(msgs) + 1 > max_history THEN msgs ELSE Append(msgs, m)

\* ChatRoom.add_message, lines 164-167
AddMessage(msgs, m) ==
    IF Len(msgs) + 1 > max_history THEN Tail(Append(msgs, m))
    ELSE Append(msgs, m)

\* ChatRoom.get_recent_messages, line 169: the default of limit
limit == 50

\* a replay of the whole history
AllMessages(msgs) == msgs

\* ChatRoom.get_recent_messages, lines 169-170: self.messages[-limit:]
GetRecentMessages(msgs) ==
    IF Len(msgs) <= limit THEN msgs
    ELSE SubSeq(msgs, Len(msgs) - limit + 1, Len(msgs))

\* the response of handle_join_chat, lines 586-591
JoinResponse(d, msgs) ==
    [Response("join_chat", d.requestId, TRUE, "")
       EXCEPT !.messages = GetRecentMessages(msgs)]

ChatEvent(c, d) == [event |-> "new_chat_message", conn |-> c, requestId |-> d.requestId]

\* message_data, line 547
MessageData(c, d) == [conn |-> c, requestId |-> d.requestId]

ChatError(d) == Response(d.action, d.requestId, FALSE, "Chat error")

\* a handler that answers a request without videoId with success
NoVideoIdAccepted(d) == Response(d.action, d.requestId, TRUE, "")

\* the validation failure of the three chat handlers, lines 530-536, 574-580
\* and 598-604
NoVideoIdResponse(d) ==
    Response(d.action, d.requestId, FALSE, "No video ID provided")

\* a chat processor without the handler of line 169: the exception of the
\* handler ends the processor
ChatEndsUncaught(c, d, frame) ==
    IF frame.error = "Chat error"
      THEN /\ chatW' = [chatW EXCEPT ![c] = [pc |-> "dead", data |-> d,
                                             visited |-> {}, start |-> 0]]
           /\ UNCHANGED <<sent, finished>>
      ELSE /\ sent' = SendResult(sent, c, frame)
           /\ finished' = [finished EXCEPT ![c] = @ \cup {d.requestId}]
           /\ chatW' = [chatW EXCEPT ![c] = [pc |-> "get", data |-> NoData,
                                             visited |-> {}, start |-> 0]]

\* the chat processor is done with its item and goes back to queue.get()
ChatEnds(c, d, frame) ==
    /\ sent' = SendResult(sent, c, frame)
    /\ finished' = [finished EXCEPT ![c] = @ \cup {d.requestId}]
    /\ chatW' = [chatW EXCEPT ![c] = [pc |-> "get", data |-> NoData,
                                      visited |-> {}, start |-> 0]]

\* a loop that skips the members whose connection is closed
UnvisitedOpen(rooms, c, d, visited) ==
    {m \in (rooms[d.videoId].connected_clients \ visited) \ {c} : wsOpen[m]}

\* the members the set iterator of line 550 can yield next for which line 551
\* lets line 553 run
Unvisited(rooms, c, d, visited) ==
    (rooms[d.videoId].connected_clients \ visited) \ {c}

\* a failed delivery that leaves the member in the room
KeptMember(rooms, v, m) == rooms

\* the room after line 560
Removed(rooms, v, m) ==
    [rooms EXCEPT ![v].connected_clients = @ \ {m}]

\* history: the delivery of the post of request d by connection c to member
\* m raised (line 558)
Failure(c, d, m) == [conn |-> c, requestId |-> d.requestId, member |-> m]

\* handle_chat_message, lines 550-567, from one step of the iterator to the
\* next suspension.  The set iterator raises RuntimeError when the size of the
\* set differs from its size when the loop began (start); the order in which
\* it yields the members is not fixed.  A delivery that raises removes the
\* member (line 560), so the next step of the iterator raises.
Iterate(c, d, rooms, visited, start) ==
    IF Cardinality(rooms[d.videoId].connected_clients) # start
      THEN /\ chat_rooms' = rooms
           /\ ChatEnds(c, d, ChatError(d))
           /\ UNCHANGED failed
      ELSE IF Unvisited(rooms, c, d, visited) = {}
        THEN /\ chat_rooms' = rooms
             /\ ChatEnds(c, d, Response("chat_message", d.requestId, TRUE, ""))
             /\ UNCHANGED failed
        ELSE \E m \in Unvisited(rooms, c, d, visited) :
               IF SendOk(m)
                 THEN /\ chat_rooms' = rooms
                      /\ sent' = Written(sent, m, Broadcast(d, c))
                      /\ chatW' = [chatW EXCEPT ![c] =
                             [pc |-> "bcast", data |-> d,
                              visited |-> visited \cup {m}, start |-> start]]
                      /\ UNCHANGED <<finished, failed>>
                 ELSE /\ chat_rooms' = Removed(rooms, d.videoId, m)
                      /\ failed' = failed \cup {Failure(c, d, m)}
                      /\ ChatEnds(c, d, ChatError(d))

\* handle_join_chat, lines 582-583
Joined(rooms, v, c) == [rooms EXCEPT ![v].connected_clients = @ \cup {c}]

\* a leave that empties the room
LeftAll(rooms, v, c) == [rooms EXCEPT ![v].connected_clients = {}]

\* handle_leave_chat, lines 606-608
Left(rooms, v, c) == [rooms EXCEPT ![v].connected_clients = @ \ {c}]

\* history: the post of request d by connection c and the members of the room
\* when handle_chat_message is called
Post(c, d) ==
    [conn |-> c, requestId |-> d.requestId,
     members |-> chat_rooms[d.videoId].connected_clients]

\* lines 159-168 with the handler called, up to the first suspension.  A
\* request without videoId is answered 'No video ID provided'; an unhashable
\* videoId raises TypeError at the first dictionary access, which line 169
\* answers with 'Chat error'.
ChatGet(c) ==
    /\ Ready(chatW[c]) /\ chat_queue[c] # <<>>
    /\ LET d == Head(chat_queue[c]) IN
        /\ chat_queue' = [chat_queue EXCEPT ![c] = Tail(@)]
        /\ IF d.videoId = NoVideoId
             THEN /\ ChatEnds(c, d, NoVideoIdResponse(d))
                  /\ UNCHANGED <<roomVars, failed>>
             ELSE IF d.videoId = BadVideoId
               THEN /\ ChatEnds(c, d, ChatError(d))
                    /\ UNCHANGED <<roomVars, failed>>
               ELSE IF d.action = "join_chat"
                 THEN /\ chat_rooms' = Joined(chat_rooms, d.videoId, c)
                      /\ ChatEnds(c, d, JoinResponse(d,
                                      chat_rooms[d.videoId].messages))
                      /\ UNCHANGED <<video_events, failed>>
                 ELSE IF d.action = "leave_chat"
                   THEN /\ chat_rooms' = Left(chat_rooms, d.videoId, c)
                        /\ ChatEnds(c, d, Response("leave_chat", d.requestId, TRUE, ""))
                        /\ UNCHANGED <<video_events, failed>>
                   ELSE /\ video_events' = [video_events EXCEPT
                                 ![d.videoId] = AddEvent(@, ChatEvent(c, d))]
                        /\ LET rooms == [chat_rooms EXCEPT ![d.videoId].messages =
                                            AddMessage(@, MessageData(c, d))]
                           IN Iterate(c, d, rooms, {},
                                  Cardinality(rooms[d.videoId].connected_clients))
        /\ posted' = IF d.action = "chat_message" /\ d.videoId \in Topics
                       THEN posted \cup {Post(c, d)}
                       ELSE posted
    /\ UNCHANGED <<sessVars, video_queue, search_queue, searchW, videoW,
                   active_tasks, task, poolVars, submitted>>

\* the drain after a broadcast write is over: the loop of line 550 goes on
ChatBroadcast(c) ==
    /\ chatW[c].pc = "bcast"
    /\ Iterate(c, chatW[c].data, chat_rooms, chatW[c].visited, chatW[c].start)
    /\ UNCHANGED <<sessVars, queueVars, searchW, videoW, active_tasks, task,
                   poolVars, video_events, submitted, posted>>

(* ------------------------ process_video_queue ------------------------- *)

\* line 186
MAX_CONCURRENT == K

Running(t) == task[t].pc \in {"start", "sleep", "post"}

\* task.done()
Done(t) == task[t].pc \in {"done", "cancelled"}

\* a capacity test that is off by one
HasCapacityOffByOne(c) == Cardinality(active_tasks[c]) <= MAX_CONCURRENT

\* a capacity test that counts the tasks holding an endpoint only
HasCapacityHolding(c) ==
    Cardinality({t \in active_tasks[c] : task[t].pc = "post"}) < MAX_CONCURRENT

\* a lane that starts a task only when none is in flight
HasCapacityIdle(c) == active_tasks[c] = {}

\* line 226: the lane may start another task
HasCapacity(c) == Cardinality(active_tasks[c]) < MAX_CONCURRENT

\* lines 226-240, one round of the inner loop: with capacity and an item in
\* the queue, wait_for(queue.get()) returns it and a task is created for it;
\* otherwise the inner loop ends (no capacity, or TimeoutError after 0.1 s)
\* and the processor sleeps (line 243)
VideoPoll(c) ==
    /\ videoW[c] = "poll"
    /\ IF HasCapacity(c) /\ video_queue[c] # <<>>
         THEN LET d == Head(video_queue[c])
                  t == <<c, d.requestId>>
              IN  /\ video_queue' = [video_queue EXCEPT ![c] = Tail(@)]
                  /\ task' = [task EXCEPT ![t] = [pc |-> "start", data |-> d,
                                                  endpoint |-> None, waited |-> 0]]
                  /\ active_tasks' = [active_tasks EXCEPT ![c] = @ \cup {t}]
                  /\ UNCHANGED videoW
         ELSE /\ videoW' = [videoW EXCEPT ![c] = "sleep"]
              /\ UNCHANGED <<video_queue, task, active_tasks>>
    /\ UNCHANGED <<sessVars, chat_queue, search_queue, chatW, searchW,
                   poolVars, roomVars, sent, histVars>>

\* lines 243-252 and 223: after the sleep the finished tasks are awaited and
\* dropped from active_tasks, and the loop starts over
VideoReap(c) ==
    /\ videoW[c] = "sleep"
    /\ active_tasks' = [active_tasks EXCEPT ![c] = {t \in @ : ~Done(t)}]
    /\ videoW' = [videoW EXCEPT ![c] = "poll"]
    /\ UNCHANGED <<sessVars, queueVars, chatW, searchW, task, poolVars,
                   roomVars, sent, histVars>>

(* --------------- process_single_request / generate_video -------------- *)

ClipEvent(c, d) == [event |-> "new_stream_clip", conn |-> c, requestId |-> d.requestId]

VideoError(d) == Response("generate_video", d.requestId, FALSE, "Video generation error")

\* lines 207-219: the task ends: its response (if any) is written, and the
\* finally block drops the task from active_tasks
TaskEnds(t, frames) ==
    /\ sent' = frames
    /\ active_tasks' = [active_tasks EXCEPT ![t[1]] = @ \ {t}]
    /\ finished' = [finished EXCEPT ![t[1]] = @ \cup {t[2]}]

\* get_endpoint with a fallback: with no endpoint queued the caller is handed
\* the first endpoint of the list although another caller holds it
TryGetShared(t, w) ==
    IF endpoint_queue = <<>>
      THEN /\ task' = [task EXCEPT ![t].pc = "post", ![t].endpoint = 1,
                                   ![t].waited = w]
           /\ UNCHANGED <<poolVars, sent, active_tasks, finished>>
      ELSE LET e == Head(endpoint_queue)
           IN  /\ endpoint_queue' = Tail(endpoint_queue)
               /\ busy' = MarkBusy(busy, e)
               /\ task' = [task EXCEPT ![t].pc = "post", ![t].endpoint = e,
                                       ![t].waited = w]
               /\ UNCHANGED <<sent, active_tasks, finished>>

\* get_endpoint, lines 132-147, from the timeout check that passed to the
\* next suspension, for the task t that has slept w times:
\*   the queue is empty: sleep 0.5 s (line 146);
\*   an endpoint that is not busy is queued: take it, mark it busy, and yield
\*     it to generate_video, which posts to it (lines 499-508);
\*   only busy endpoints are queued: the loop pops and requeues them without
\*     suspending until the timeout check fails; the finally block then
\*     releases the endpoint popped last.
TryGet(t, w) ==
    IF endpoint_queue = <<>>
      THEN /\ task' = [task EXCEPT ![t].pc = "sleep", ![t].waited = w]
           /\ UNCHANGED <<poolVars, sent, active_tasks, finished>>
      ELSE IF FreePos(endpoint_queue, busy) # {}
        THEN LET i == TakePos(endpoint_queue, busy)
                 e == endpoint_queue[i]
             IN  /\ endpoint_queue' = QueueAfterTake(endpoint_queue, i)
                 /\ busy' = MarkBusy(busy, e)
                 /\ task' = [task EXCEPT ![t].pc = "post", ![t].endpoint = e,
                                         ![t].waited = w]
                 /\ UNCHANGED <<sent, active_tasks, finished>>
        ELSE LET e == endpoint_queue[Len(endpoint_queue)]
             IN  /\ busy' = ReleasedBusy(busy, e)
                 /\ endpoint_queue' = ReleasedQueue(endpoint_queue, e)
                 /\ task' = [task EXCEPT ![t].pc = "done", ![t].endpoint = e]
                 /\ TaskEnds(t, SendResult(sent, t[1], VideoError(task[t].data)))

\* a new task runs for the first time: generate_video lines 399-410 and the
\* first round of get_endpoint.  title.strip() raises on a title that is not
\* a string, before the event is added.  A title, description or prefix
\* that is missing (arg = "empty") defaults to '' at lines 191-194 of api.py
\* and is not looked at.
TaskStart(t) ==
    /\ task[t].pc = "start"
    /\ LET d == task[t].data IN
       IF d.arg = "bad"
         THEN /\ task' = [task EXCEPT ![t].pc = "done"]
              /\ TaskEnds(t, SendResult(sent, t[1], VideoError(d)))
              /\ UNCHANGED <<poolVars, video_events>>
         ELSE /\ video_events' = [video_events EXCEPT
                                    ![d.videoId] = AddEvent(@, ClipEvent(t[1], d))]
              /\ TryGet(t, 0)
    /\ UNCHANGED <<sessVars, queueVars, chatW, searchW, videoW, chat_rooms,
                   submitted, posted, failed>>

\* the sleep of line 146 is over: the timeout check of line 133, then
\* another round.  TimeoutError leaves through the finally block with
\* endpoint = None and is caught at line 207.
TaskWake(t) ==
    /\ task[t].pc = "sleep"
    /\ LET w == task[t].waited + 1 IN
       IF TimedOut(w)
         THEN /\ task' = [task EXCEPT ![t].pc = "done", ![t].waited = w]
              /\ TaskEnds(t, SendResult(sent, t[1], VideoError(task[t].data)))
              /\ UNCHANGED poolVars
         ELSE TryGet(t, w)
    /\ UNCHANGED <<sessVars, queueVars, chatW, searchW, videoW, roomVars,
                   submitted, posted, failed>>

\* lines 508-522 and 152-156: the endpoint has answered (ok) or the call has
\* failed; the endpoint is released on the way out of the with block, then
\* the response is written (lines 198-205, or 207-217)
TaskPostDone(t, ok) ==
    /\ task[t].pc = "post"
    /\ LET d == task[t].data
           e == task[t].endpoint
       IN  /\ busy' = ReleasedBusy(busy, e)
           /\ endpoint_queue' = ReleasedQueue(endpoint_queue, e)
           /\ task' = [task EXCEPT ![t].pc = "done"]
           /\ TaskEnds(t, SendResult(sent, t[1],
                  IF ok THEN Response("generate_video", d.requestId, TRUE, "")
                        ELSE VideoError(d)))
    /\ UNCHANGED <<sessVars, queueVars, chatW, searchW, videoW, roomVars,
                   submitted, posted, failed>>

\* the task is cancelled while it sleeps or awaits the endpoint (the runner
\* cancels every task when the application stops, line 338): CancelledError
\* passes "except Exception", the finally blocks release the endpoint held
\* and drop the task from active_tasks, and no response is written
TaskCancel(t) ==
    /\ task[t].pc \in {"sleep", "post"}
    /\ IF task[t].endpoint # None
         THEN /\ busy' = ReleasedBusy(busy, task[t].endpoint)
              /\ endpoint_queue' = ReleasedQueue(endpoint_queue, task[t].endpoint)
         ELSE UNCHANGED poolVars
    /\ task' = [task EXCEPT ![t].pc = "cancelled"]
    /\ active_tasks' = [active_tasks EXCEPT ![t[1]] = @ \ {t}]
    /\ UNCHANGED <<sessVars, queueVars, chatW, searchW, videoW, roomVars, sent,
                   histVars>>

(* --------------------------- specifications --------------------------- *)

RECURSIVE SumTo(_, _)
SumTo(f, n) == IF n = 0 THEN 0 ELSE f[n] + SumTo(f, n - 1)

\* messages read so far, over all connections
TotalSubmitted == SumTo([c \in Conns |-> Len(submitted[c])], MaxConns)

\* The endpoint pool under contention: several connections, each with its
\* generation lane, share the K endpoints.
PoolRequests ==
    [action : {"generate_video"}, requestId : 1..PoolReqs, videoId : Topics,
     arg : {"ok"}]

NextPool ==
    \/ \E c \in 1..PoolConns : Connect(c)
    \/ \E c \in Conns, d \in PoolRequests :
          TotalSubmitted < PoolReqs /\ Receive(c, d)
    \/ \E c \in Conns : Close(c)
    \/ \E c \in Conns : VideoPoll(c)
    \/ \E c \in Conns : VideoReap(c)
    \/ \E t \in TaskIds : TaskStart(t)
    \/ \E t \in TaskIds : TaskWake(t)
    \/ \E t \in TaskIds, ok \in BOOLEAN : TaskPostDone(t, ok)
    \/ \E t \in TaskIds : TaskCancel(t)

SpecPool == Init /\ [][NextPool]_vars

\* The endpoint pool under contention, with generation requests whose title
\* is not a string among the requests.
ClipRequests ==
    [action : {"generate_video"}, requestId : 1..PoolReqs, videoId : Topics,
     arg : {"ok", "bad"}]

NextClip ==
    \/ \E c \in 1..PoolConns : Connect(c)
    \/ \E c \in Conns, d \in ClipRequests :
          TotalSubmitted < PoolReqs /\ Receive(c, d)
    \/ \E c \in Conns : VideoPoll(c)
    \/ \E c \in Conns : VideoReap(c)
    \/ \E t \in TaskIds : TaskStart(t)
    \/ \E t \in TaskIds : TaskWake(t)
    \/ \E t \in TaskIds, ok \in BOOLEAN : TaskPostDone(t, ok)
    \/ \E t \in TaskIds : TaskCancel(t)

SpecClip == Init /\ [][NextClip]_vars

\* The three lanes and the inline path of one connection.  A lone
\* connection never finds the pool empty (its lane runs at most K tasks), so
\* the sleep of get_endpoint is not part of this specification.
LaneRequests ==
    [action : {"search"}, requestId : 1..LaneReqs, videoId : {NoVideoId},
     arg : {"ok", "empty", "bad"}]
    \cup [action : ChatActions, requestId : 1..LaneReqs,
          videoId : Topics \cup {NoVideoId, BadVideoId}, arg : {"ok"}]
    \cup [action : {"generate_video"}, requestId : 1..LaneReqs, videoId : Topics,
          arg : {"ok", "empty", "bad"}]
    \cup [action : {"heartbeat", "unknown"}, requestId : 1..LaneReqs,
          videoId : {NoVideoId}, arg : {"ok"}]
    \cup [action : {"generate_caption", "generate_thumbnail"},
          requestId : 1..LaneReqs, videoId : {NoVideoId}, arg : {"ok", "empty"}]

NextLanes ==
    \/ \E c \in 1..LaneConns : Connect(c)
    \/ \E c \in Conns, d \in LaneRequests : Receive(c, d)
    \/ \E c \in Conns : GenericDone(c)
    \/ \E c \in Conns : Break(c)
    \/ \E c \in Conns : Close(c)
    \/ \E c \in Conns : SearchGet(c)
    \/ \E c \in Conns, found \in BOOLEAN : SearchDone(c, found)
    \/ \E c \in Conns : ChatGet(c)
    \/ \E c \in Conns : VideoPoll(c)
    \/ \E c \in Conns : VideoReap(c)
    \/ \E t \in TaskIds : TaskStart(t)
    \/ \E t \in TaskIds, ok \in BOOLEAN : TaskPostDone(t, ok)
    \/ \E t \in TaskIds : TaskCancel(t)

SpecLanes == Init /\ [][NextLanes]_vars

\* The lanes and the inline path of one connection that also sends TEXT
\* messages that are not JSON objects.
NextRecv ==
    \/ \E c \in 1..LaneConns : Connect(c)
    \/ \E c \in Conns, d \in LaneRequests : Receive(c, d)
    \/ \E c \in Conns, p \in Payloads : ReceiveBad(c, p)
    \/ \E c \in Conns : GenericDone(c)
    \/ \E c \in Conns : Break(c)
    \/ \E c \in Conns : Close(c)
    \/ \E c \in Conns : SearchGet(c)
    \/ \E c \in Conns, found \in BOOLEAN : SearchDone(c, found)
    \/ \E c \in Conns : ChatGet(c)
    \/ \E c \in Conns : VideoPoll(c)
    \/ \E c \in Conns : VideoReap(c)
    \/ \E t \in TaskIds : TaskStart(t)
    \/ \E t \in TaskIds, ok \in BOOLEAN : TaskPostDone(t, ok)
    \/ \E t \in TaskIds : TaskCancel(t)

SpecRecv == Init /\ [][NextRecv]_vars

\* The lanes of several connections that share the endpoint pool, while the
\* application keeps running: every processor and every generation task
\* that can take a step eventually takes it, and every call to a
\* collaborator returns.
LiveRequests ==
    [action : {"generate_video"}, requestId : 1..LiveReqs, videoId : Topics,
     arg : {"ok"}]
    \cup [action : {"search"}, requestId : 1..LiveReqs, videoId : {NoVideoId},
          arg : {"ok"}]
    \cup [action : {"chat_message"}, requestId : 1..LiveReqs,
          videoId : Topics, arg : {"ok"}]

LiveTasks == (1..LiveConns) \X (1..LiveReqs)

NextLive ==
    \/ \E c \in 1..LiveConns : Connect(c)
    \/ \E c \in Conns, d \in LiveRequests :
          TotalSubmitted < LiveReqs /\ Receive(c, d)
    \/ \E c \in Conns : SearchGet(c)
    \/ \E c \in Conns, found \in BOOLEAN : SearchDone(c, found)
    \/ \E c \in Conns : ChatGet(c)
    \/ \E c \in Conns : VideoPoll(c)
    \/ \E c \in Conns : VideoReap(c)
    \/ \E t \in TaskIds : TaskStart(t)
    \/ \E t \in TaskIds : TaskWake(t)
    \/ \E t \in TaskIds, ok \in BOOLEAN : TaskPostDone(t, ok)

\* one step of the search processor, the chat processor, the generation
\* processor of a connection, and of a generation task
SearchRuns(c) == SearchGet(c) \/ \E found \in BOOLEAN : SearchDone(c, found)

\* (nobody joins a room here, so the broadcast loop does not suspend)
ChatRuns(c) == ChatGet(c)

VideoRuns(c) == VideoPoll(c) \/ VideoReap(c)

TaskRuns(t) ==
    TaskStart(t) \/ TaskWake(t) \/ \E ok \in BOOLEAN : TaskPostDone(t, ok)

\* the event loop runs every coroutine that is ready, and every await of a
\* collaborator or of a sleep returns
Fairness ==
    /\ \A c \in 1..LiveConns :
         WF_vars(SearchRuns(c)) /\ WF_vars(ChatRuns(c)) /\ WF_vars(VideoRuns(c))
    /\ \A t \in LiveTasks : WF_vars(TaskRuns(t))

SpecLive == Init /\ [][NextLive]_vars /\ Fairness

\* The two sequential lanes of one connection.  A lone connection has no
\* other member to deliver to, so the broadcast loop does not suspend.
SeqRequests ==
    [action : {"search"}, requestId : 1..SeqReqs, videoId : {NoVideoId},
     arg : {"ok", "empty", "bad"}]
    \cup [action : {"chat_message"}, requestId : 1..SeqReqs,
          videoId : Topics \cup {NoVideoId, BadVideoId}, arg : {"ok"}]
    \cup [action : {"join_chat", "leave_chat"}, requestId : 1..SeqReqs,
          videoId : Topics, arg : {"ok"}]

NextSeq ==
    \/ \E c \in 1..LaneConns : Connect(c)
    \/ \E c \in Conns, d \in SeqRequests : Receive(c, d)
    \/ \E c \in Conns : Break(c)
    \/ \E c \in Conns : Close(c)
    \/ \E c \in Conns : SearchGet(c)
    \/ \E c \in Conns, found \in BOOLEAN : SearchDone(c, found)
    \/ \E c \in Conns : ChatGet(c)

SpecSeq == Init /\ [][NextSeq]_vars

\* The chat rooms: several connections join, post to and leave one topic; a
\* connection that closes stays a member, and deliveries to it raise.
ChatRequests ==
    [action : ChatActions, requestId : 1..ChatReqs, videoId : Topics,
     arg : {"ok"}]

NextChat ==
    \/ \E c \in 1..ChatConns : Connect(c)
    \/ \E c \in Conns, d \in ChatRequests :
          TotalSubmitted < ChatReqs /\ Receive(c, d)
    \/ \E c \in Conns : Close(c)
    \/ \E c \in Conns : ChatGet(c)
    \/ \E c \in Conns : ChatBroadcast(c)

SpecChat == Init /\ [][NextChat]_vars

\* The bounded histories: one connection posts message after message to one
\* topic, so the room history and the event log fill up and evict.
HistRequests ==
    [action : {"chat_message"}, requestId : 1..HistReqs, videoId : Topics,
     arg : {"ok"}]
    \cup [action : {"join_chat"}, requestId : {JoinEarly, JoinLate},
          videoId : Topics, arg : {"ok"}]

NextHist ==
    \/ Connect(1)
    \/ \E d \in HistRequests : Receive(1, d)
    \/ ChatGet(1)

SpecHist == Init /\ [][NextHist]_vars

(* ------------------------------ claims -------------------------------- *)

\* the tasks inside "async with get_endpoint() as endpoint" that were handed e
Holders(e) == {t \in TaskIds : task[t].pc = "post" /\ task[t].endpoint = e}

Count(q, e) == Cardinality({i \in 1..Len(q) : q[i] = e})

TasksOf(c) == {t \in TaskIds : t[1] = c}

InFlight(c) == {t \in TasksOf(c) : Running(t)}

Started(c) == {t \in TasksOf(c) : task[t].pc # "none"}

\* the responses (not the broadcasts) written to c for request id
Responses(c, id) ==
    {i \in 1..Len(sent[c]) : ~sent[c][i].broadcast /\ sent[c][i].requestId = id}

\* C1: no endpoint is ever held by two callers at the same time, whatever
\* the interleaving of acquisitions and releases by the tasks of all
\* connections.
C1_Exclusive == \A e \in Endpoints : Cardinality(Holders(e)) <= 1

\* every endpoint is held, by tasks of two connections, and a further task
\* is waiting for one
C1_Witness ==
    /\ \A e \in Endpoints : Holders(e) # {}
    /\ \E e1, e2 \in Endpoints : \E t1 \in Holders(e1), t2 \in Holders(e2) :
          t1[1] # t2[1]
    /\ \E t \in TaskIds : task[t].pc = "sleep"

\* C2: an endpoint handed out is put back exactly once when its holder
\* leaves the with block, on every exit path (the call returned, the call
\* failed, the holder was cancelled): the step that ends the hold takes the
\* endpoint from zero to one occurrence in the queue, and the queue never
\* holds an endpoint twice.
C2_ReleasedOnce ==
    /\ [](\A e \in Endpoints : Count(endpoint_queue, e) <= 1)
    /\ [][\A t \in TaskIds :
            (task[t].pc = "post" /\ task'[t].pc # "post")
            => /\ Count(endpoint_queue, task[t].endpoint) = 0
               /\ Count(endpoint_queue', task[t].endpoint) = 1
               /\ ~busy'[task[t].endpoint]]_vars

\* the three exit paths have been taken: a holder was cancelled, a holder's
\* call failed and a holder's call succeeded, and every endpoint is back
C2_Witness ==
    /\ \E t \in TaskIds : task[t].pc = "cancelled" /\ task[t].endpoint # None
    /\ \E c \in Conns : \E i \in 1..Len(sent[c]) : ~sent[c][i].success
    /\ \E c \in Conns : \E i \in 1..Len(sent[c]) : sent[c][i].success
    /\ Len(endpoint_queue) = K

\* C3: an endpoint is in the available queue if and only if no caller holds
\* it, its busy flag is false exactly when it is queued, and the queue and
\* the holders together are exactly the K endpoints of the pool.
C3_QueuedIffFree ==
    /\ \A e \in Endpoints :
          /\ (Count(endpoint_queue, e) > 0) <=> (Holders(e) = {})
          /\ busy[e] <=> (Count(endpoint_queue, e) = 0)
    /\ \A i \in 1..Len(endpoint_queue) : endpoint_queue[i] \in Endpoints
    /\ Len(endpoint_queue)
         + Cardinality({e \in Endpoints : Holders(e) # {}}) = K

\* one endpoint is held and the other is queued after it has been used and
\* released
C3_Witness ==
    /\ \E e \in Endpoints : Holders(e) # {} /\ busy[e]
    /\ \E t \in TaskIds : task[t].pc = "done" /\ task[t].endpoint # None
                           /\ Count(endpoint_queue, task[t].endpoint) = 1

\* the task has slept for the whole wait bound
PastBound(t) == task[t].waited >= MaxWaitSleeps

\* the generation tasks that ended on the TimeoutError of get_endpoint
TimedOutTasks == {t \in TaskIds : task[t].pc = "done" /\ PastBound(t)}

\* C4: an acquisition does not wait beyond the bound: no task is still
\* waiting for, or is handed, an endpoint once the bound has passed; the task
\* that timed out holds no endpoint, its request got one success:false
\* response and no other (its connection being open), and the lane of its
\* connection is still running unless the session was closed.
C4_TimeoutBound ==
    \A t \in TaskIds :
      /\ task[t].pc \in {"sleep", "post"} => ~PastBound(t)
      /\ t \in TimedOutTasks =>
            /\ task[t].endpoint = None
            /\ \A i \in Responses(t[1], t[2]) :
                  sent[t[1]][i] = VideoError(task[t].data)
            /\ Cardinality(Responses(t[1], t[2])) <= 1
            /\ wsOpen[t[1]] => Responses(t[1], t[2]) # {}
            /\ sess[t[1]] = "active" => videoW[t[1]] \in {"poll", "sleep"}

\* a task timed out while every endpoint stayed held, its connection got the
\* error response, and another task of the same lane is still in flight
C4_Witness ==
    \E t \in TimedOutTasks :
      /\ \A e \in Endpoints : Holders(e) # {}
      /\ Responses(t[1], t[2]) # {}
      /\ InFlight(t[1]) # {}
      /\ videoW[t[1]] \in {"poll", "sleep"}

\* C5: at every instant the generation tasks a connection's lane has started
\* and that have not finished number at most K.
C5_LaneBound == \A c \in Conns : Cardinality(InFlight(c)) <= K

\* K tasks of one lane are in flight while a further request waits in its queue
C5_Witness ==
    \E c \in Conns : Cardinality(InFlight(c)) = K /\ video_queue[c] # <<>>

\* the endpoint a finished task used is back in the pool (queued, or held
\* again by a task that is running)
GaveBack(t) ==
    task[t].endpoint # None =>
       \/ Count(endpoint_queue, task[t].endpoint) > 0
       \/ Holders(task[t].endpoint) # {}

\* C6: a request beyond the first K of a connection is started only when
\* fewer than K tasks of the lane are in flight, that is after an earlier
\* task of the lane has finished, and that task has given back its endpoint.
C6_StartAfterFinish ==
    [][\A c \in Conns :
         (\E t \in TasksOf(c) : task[t].pc = "none" /\ task'[t].pc = "start")
         => /\ Cardinality(InFlight(c)) < K
            /\ Cardinality(Started(c)) >= K =>
                  \E u \in TasksOf(c) : Done(u) /\ GaveBack(u)
            /\ \A u \in TasksOf(c) : Done(u) => GaveBack(u)]_vars

\* more than K requests of one connection have been started
C6_Witness == \E c \in Conns : Cardinality(Started(c)) > K

\* the requests connection c has submitted to the lane of the actions A
Asked(c, A) == SelectSeq(submitted[c], LAMBDA d : d.action \in A)

\* the responses written to connection c by the lane of the actions A
Answered(c, A) ==
    SelectSeq(sent[c], LAMBDA f : ~f.broadcast /\ f.action \in A)

SeqLanes == {ChatActions, {"search"}}

\* C7: on the chat lane and on the search lane of a connection the responses
\* are written in the order the requests were submitted, the i-th response
\* carrying the requestId and the action of the i-th request, whether the
\* request succeeded, failed validation or made its handler raise.
C7_InOrder ==
    \A c \in Conns : \A A \in SeqLanes :
      /\ Len(Answered(c, A)) <= Len(Asked(c, A))
      /\ \A i \in 1..Len(Answered(c, A)) :
            /\ Answered(c, A)[i].requestId = Asked(c, A)[i].requestId
            /\ Answered(c, A)[i].action = Asked(c, A)[i].action

\* three chat requests were answered in order: the first made the handler
\* raise, the second failed validation, the third succeeded
C7_Witness ==
    \E c \in Conns :
      /\ Len(Answered(c, ChatActions)) = 3
      /\ Answered(c, ChatActions)[1].error = "Chat error"
      /\ Answered(c, ChatActions)[2].error = "No video ID provided"
      /\ Answered(c, ChatActions)[3].success

\* C8 as claimed: every request whose processing has run to its end has
\* exactly one response.
C8_ExactlyOne ==
    \A c \in Conns : \A id \in finished[c] :
      Cardinality(Responses(c, id)) = 1

\* C8 as amended: a request never has two responses, a response carries the
\* action and the requestId of its request, and a request whose processing
\* has run to its end has exactly one response when the connection is still
\* open (a write to a connection whose transport has failed raises, the
\* error response that replaces it raises too, and the request has none).
C8_OneIfOpen ==
    \A c \in Conns : \A id \in ReqIds :
      /\ Cardinality(Responses(c, id)) <= 1
      /\ \A i \in Responses(c, id) :
            /\ id <= Len(submitted[c])
            /\ sent[c][i].action = submitted[c][id].action
      /\ (id \in finished[c] /\ wsOpen[c]) => Responses(c, id) # {}

\* on an open connection two requests have run to their end, one answered
\* with success and one with an error
C8_Witness ==
    \E c \in Conns :
      /\ wsOpen[c]
      /\ \E id1, id2 \in finished[c] :
            /\ \E i \in Responses(c, id1) : sent[c][i].success
            /\ \E i \in Responses(c, id2) : ~sent[c][i].success

\* the request fails whatever its collaborator does: a field is missing (a
\* generate_video request is not looked at: its missing fields default to
\* '' and {}), a field has the wrong type, or the action is unknown
Failing(d) ==
    \/ d.arg = "bad"
    \/ d.arg = "empty" /\ d.action # "generate_video"
    \/ d.action \in ChatActions /\ d.videoId \notin Topics
    \/ d.action = "unknown"

\* C9: a failure while one request is processed ends neither the lane nor
\* the connection: the three processors of an active session are running,
\* and the request that failed has a success:false response (the connection
\* being open).
C9_LaneSurvives ==
    \A c \in Conns :
      /\ sess[c] = "active" =>
            /\ chatW[c].pc \in {"get", "bcast"}
            /\ searchW[c].pc \in {"get", "call"}
            /\ videoW[c] \in {"poll", "sleep"}
      /\ \A id \in finished[c] :
            (Failing(submitted[c][id]) /\ wsOpen[c])
            => \E i \in Responses(c, id) : ~sent[c][i].success

\* a lane answered a request whose handler raised and then answered the next
\* request of the same lane with success
C9_Witness ==
    \E c \in Conns : \E A \in SeqLanes :
      /\ sess[c] = "active"
      /\ Len(Answered(c, A)) = 2
      /\ Answered(c, A)[1].error \in {"Chat error", "Internal server error"}
      /\ Answered(c, A)[2].success

\* the broadcasts of post p written to connection m
Broadcasts(m, p) ==
    {i \in 1..Len(sent[m]) : /\ sent[m][i].broadcast
                             /\ sent[m][i].from = p.conn
                             /\ sent[m][i].requestId = p.requestId}

\* C10 (as claimed, for the members whose connection is open): once a post
\* has been processed, every member of the topic at the time of the post
\* other than the sender has exactly one broadcast of it, and no one else
\* has any.
C10_DeliveredOnce ==
    \A p \in posted :
      p.requestId \in finished[p.conn] =>
        \A m \in Conns :
          /\ (m \in p.members \ {p.conn} /\ wsOpen[m])
               => Cardinality(Broadcasts(m, p)) = 1
          /\ m \notin p.members \ {p.conn} => Broadcasts(m, p) = {}

\* the post a failed delivery belongs to
PostOf(f) ==
    CHOOSE p \in posted : p.conn = f.conn /\ p.requestId = f.requestId

\* connection m is a member of some topic
IsMember(m) == \E v \in Topics : m \in chat_rooms[v].connected_clients

\* C11 (as claimed): once a post during which a delivery raised has been
\* processed, every other member present at call time whose connection is
\* open and that is still a member has the broadcast, and the sender (its
\* connection being open) has a success response.
C11_NotAborted ==
    \A f \in failed :
      f.requestId \in finished[f.conn] =>
        /\ \A m \in PostOf(f).members \ {f.conn, f.member} :
              (wsOpen[m] /\ IsMember(m)) => Broadcasts(m, PostOf(f)) # {}
        /\ wsOpen[f.conn] =>
              \E i \in Responses(f.conn, f.requestId) : sent[f.conn][i].success

\* the members of all topics
Clients == UNION {chat_rooms[v].connected_clients : v \in Topics}

\* the deliveries to member m that have raised so far
FailuresAt(m) == {f \in failed : f.member = m}

\* in this step a delivery to m is attempted: a broadcast is written to m or
\* a delivery to m raises
Attempted(m) ==
    \/ /\ Len(sent'[m]) > Len(sent[m])
       /\ sent'[m][Len(sent'[m])].broadcast
    \/ FailuresAt(m)' # FailuresAt(m)

\* in this step the chat processor of m handles a join_chat of m
Joins(m) ==
    /\ chatW[m].pc = "get" /\ chat_queue[m] # <<>>
    /\ Head(chat_queue[m]).action = "join_chat"

\* C12: the step in which a delivery to a member raises removes that member
\* from the topic; a delivery is attempted only to a connection that is a
\* member; and a connection becomes a member only by its own join_chat.  So
\* no later post attempts a delivery to the removed member unless it joins
\* again.
C12_RemovedOnFailure ==
    [][\A m \in Conns :
         /\ FailuresAt(m)' # FailuresAt(m) => (m \in Clients /\ m \notin Clients')
         /\ Attempted(m) => m \in Clients
         /\ (m \notin Clients /\ m \in Clients') => Joins(m)]_vars

\* a delivery to a member raised, and a later post, made when that
\* connection was no longer a member, has been delivered to another member
C12_Witness ==
    \E f \in failed : \E p \in posted :
      /\ f.member \in PostOf(f).members
      /\ f.member \notin p.members
      /\ f.member \notin Clients
      /\ p.requestId \in finished[p.conn]
      /\ \E m \in p.members : Broadcasts(m, p) # {}

\* connection m has never asked to leave a topic
NeverLeft(m) ==
    \A i \in 1..Len(submitted[m]) : submitted[m][i].action # "leave_chat"

\* no delivery of post p has raised
Undisturbed(p) ==
    \A f \in failed : ~(f.conn = p.conn /\ f.requestId = p.requestId)

\* C13 (as claimed): a post none of whose deliveries raised does not fail
\* (its sender, the connection being open, has a success response) and
\* skips no member that stayed in the topic throughout, whatever join_chat
\* and leave_chat of other connections are processed while it awaits a
\* delivery.
C13_SafeInterleaving ==
    \A p \in posted :
      (p.requestId \in finished[p.conn] /\ Undisturbed(p)) =>
        /\ wsOpen[p.conn] =>
              \E i \in Responses(p.conn, p.requestId) : sent[p.conn][i].success
        /\ \A m \in p.members \ {p.conn} :
              (wsOpen[m] /\ NeverLeft(m)) => Broadcasts(m, p) # {}

Min(a, b) == IF a <= b THEN a ELSE b

\* the posts of connection 1 to topic v that have been processed, in the
\* order they were made
Stored(v) ==
    SelectSeq(submitted[1],
              LAMBDA d : /\ d.action = "chat_message" /\ d.videoId = v
                         /\ d.requestId \in finished[1])

\* C14: with n messages posted to a topic, the room history is the last
\* min(n, 100) of them in the order they were posted and the event log is
\* the last min(n, 50) of their events in that order.
C14_BoundedHistory ==
    \A v \in Topics :
      LET all == Stored(v)
          n == Len(all)
          h == chat_rooms[v].messages
          e == video_events[v]
      IN  /\ Len(h) = Min(n, 100)
          /\ Len(e) = Min(n, 50)
          /\ \A i \in 1..Len(h) : h[i] = MessageData(1, all[n - Len(h) + i])
          /\ \A i \in 1..Len(e) : e[i] = ChatEvent(1, all[n - Len(e) + i])

\* more than 100 messages were posted: the history holds 100 and its oldest
\* entry is not the first message, the event log holds 50
C14_Witness ==
    \E v \in Topics :
      /\ Len(Stored(v)) > 100
      /\ Len(chat_rooms[v].messages) = 100
      /\ chat_rooms[v].messages[1].requestId > 1
      /\ Len(video_events[v]) = 50

\* in this step the chat processor of c takes a join_chat for topic v from
\* its queue
JoinStep(c, v) ==
    /\ Joins(c) /\ Head(chat_queue[c]).videoId = v
    /\ chat_queue'[c] = Tail(chat_queue[c])

\* the last min(50, Len(h)) entries of h, in the order of h
Replay(h) ==
    [i \in 1..Min(50, Len(h)) |-> h[Len(h) - Min(50, Len(h)) + i]]

\* C15: the step that processes a join_chat for a topic makes the connection
\* a member of the topic, answers (the connection being open) with a success
\* response that carries the last min(50, history length) messages of the
\* topic in insertion order, and leaves the history and the event log as
\* they were.
C15_JoinReplays ==
    [][\A c \in Conns : \A v \in Topics :
         JoinStep(c, v) =>
           /\ c \in chat_rooms'[v].connected_clients
           /\ chat_rooms'[v].messages = chat_rooms[v].messages
           /\ video_events' = video_events
           /\ wsOpen[c] =>
                 /\ Len(sent'[c]) = Len(sent[c]) + 1
                 /\ LET r == sent'[c][Len(sent'[c])]
                    IN  /\ r.action = "join_chat" /\ r.success /\ ~r.broadcast
                        /\ r.requestId = Head(chat_queue[c]).requestId
                        /\ r.messages = Replay(chat_rooms[v].messages)]_vars

\* a connection joined a topic with a short history and was replayed all of
\* it, and joined again when the history was longer than 50 and was
\* replayed the last 50, the oldest messages left out
C15_Witness ==
    \E c \in Conns : \E i, j \in 1..Len(sent[c]) :
      /\ sent[c][i].action = "join_chat" /\ sent[c][i].success
      /\ Len(sent[c][i].messages) \in 1..49
      /\ sent[c][j].action = "join_chat" /\ sent[c][j].success
      /\ Len(sent[c][j].messages) = 50
      /\ sent[c][j].messages[1].requestId > 1
      /\ IsMember(c)

\* in this step the chat processor of c takes a leave_chat for topic v from
\* its queue
LeaveStep(c, v) ==
    /\ chatW[c].pc = "get" /\ chat_queue[c] # <<>>
    /\ Head(chat_queue[c]).action = "leave_chat"
    /\ Head(chat_queue[c]).videoId = v
    /\ chat_queue'[c] = Tail(chat_queue[c])

\* the successful leave_chat responses written to connection c
LeftOk(c) ==
    {i \in 1..Len(sent[c]) : sent[c][i].action = "leave_chat" /\ sent[c][i].success}

\* C16: the step that processes a leave_chat for a topic answers (the
\* connection being open) with a success response, takes the connection,
\* and nobody else, out of the members, and leaves the history and the
\* event log as they were; when the connection is not a member the rooms
\* do not change at all, so a second leave changes nothing.
C16_LeaveIdempotent ==
    [][\A c \in Conns : \A v \in Topics :
         LeaveStep(c, v) =>
           /\ chat_rooms'[v].connected_clients
                = chat_rooms[v].connected_clients \ {c}
           /\ chat_rooms'[v].messages = chat_rooms[v].messages
           /\ video_events' = video_events
           /\ c \notin chat_rooms[v].connected_clients => chat_rooms' = chat_rooms
           /\ wsOpen[c] =>
                 /\ Len(sent'[c]) = Len(sent[c]) + 1
                 /\ LET r == sent'[c][Len(sent'[c])]
                    IN  /\ r.action = "leave_chat" /\ r.success /\ ~r.broadcast
                        /\ r.requestId = Head(chat_queue[c]).requestId]_vars

\* a connection has left a topic twice, both times with success, while
\* another connection is a member
C16_Witness ==
    \E c \in Conns :
      /\ Cardinality(LeftOk(c)) >= 2
      /\ \E m \in Clients : m # c

\* in this step the chat processor of c takes a request without topic id
\* from its queue
NoTopicStep(c) ==
    /\ chatW[c].pc = "get" /\ chat_queue[c] # <<>>
    /\ Head(chat_queue[c]).videoId = NoVideoId
    /\ chat_queue'[c] = Tail(chat_queue[c])

\* C17: the step that processes a chat_message, join_chat or leave_chat
\* without topic id writes the response success:false 'No video ID
\* provided' to the sender (its connection being open) and nothing to any
\* other connection, and changes neither the histories, the event logs nor
\* the memberships.
C17_NoVideoId ==
    [][\A c \in Conns :
         NoTopicStep(c) =>
           /\ chat_rooms' = chat_rooms
           /\ video_events' = video_events
           /\ posted' = posted
           /\ \A m \in Conns \ {c} : sent'[m] = sent[m]
           /\ sent'[c] =
                IF wsOpen[c]
                  THEN Append(sent[c],
                         [action |-> Head(chat_queue[c]).action,
                          requestId |-> Head(chat_queue[c]).requestId,
                          success |-> FALSE, error |-> "No video ID provided",
                          broadcast |-> FALSE, from |-> None, messages |-> <<>>])
                  ELSE sent[c]]_vars

\* a member of a topic got 'No video ID provided' for a request, and the
\* topic still has it as a member
C17_Witness ==
    \E c \in Conns : \E i \in 1..Len(sent[c]) :
      /\ sent[c][i].error = "No video ID provided"
      /\ sent[c][i].action \in {"leave_chat", "chat_message"}
      /\ c \in Clients

\* in this step connection c reads a message
ReceiveStep(c) == Len(submitted'[c]) = Len(submitted[c]) + 1

\* the message read in this step
Read(c) == submitted'[c][Len(submitted'[c])]

\* the queue q of connection c gets the message read in this step
Gets(q, c) == q'[c] = Append(q[c], Read(c))

\* the message read in this step is handled inline: a response to it is
\* written, or the receive loop awaits the collaborator for it
Inline(c) ==
    \/ /\ Len(sent'[c]) = Len(sent[c]) + 1
       /\ sent'[c][Len(sent'[c])].requestId = Read(c).requestId
       /\ sent'[c][Len(sent'[c])].action = Read(c).action
    \/ rx[c].pc = "recv" /\ rx'[c].pc = "generic" /\ rx'[c].data = Read(c)

\* the actions the receive loop and process_generic_request know
KnownActions ==
    ChatActions \cup {"generate_video", "search", "heartbeat",
                      "generate_caption", "generate_thumbnail"}

\* C18: the step that reads a message gives it to exactly one destination,
\* chosen by its action: the chat queue, the generation queue, the search
\* queue, or inline handling; the other queues do not change.  A message
\* with an action that is not known is answered at once with success:false
\* 'Unknown action', its action and its requestId, and no queue changes.
C18_RoutedOnce ==
    [][\A c \in Conns :
         ReceiveStep(c) =>
           /\ IF Read(c).action \in ChatActions
                THEN Gets(chat_queue, c) ELSE chat_queue' = chat_queue
           /\ IF Read(c).action = "generate_video"
                THEN Gets(video_queue, c) ELSE video_queue' = video_queue
           /\ IF Read(c).action = "search"
                THEN Gets(search_queue, c) ELSE search_queue' = search_queue
           /\ Inline(c) <=>
                Read(c).action \notin ChatActions \cup {"generate_video", "search"}
           /\ Read(c).action \notin KnownActions =>
                /\ sent'[c] = Append(sent[c],
                      [action |-> Read(c).action,
                       requestId |-> Read(c).requestId,
                       success |-> FALSE, error |-> "Unknown action",
                       broadcast |-> FALSE, from |-> None, messages |-> <<>>])
                /\ UNCHANGED <<chat_queue, video_queue, search_queue>>]_vars

\* a message with an unknown action was answered while an earlier request
\* was still waiting in a queue
C18_Witness ==
    \E c \in Conns : \E i \in 1..Len(sent[c]) :
      /\ sent[c][i].error = "Unknown action"
      /\ sent[c][i].requestId > 1
      /\ chat_queue[c] # <<>> \/ video_queue[c] # <<>> \/ search_queue[c] # <<>>

\* the requests waiting in the three queues of connection c
Waiting(c) ==
    {chat_queue[c][i] : i \in 1..Len(chat_queue[c])}
    \cup {video_queue[c][i] : i \in 1..Len(video_queue[c])}
    \cup {search_queue[c][i] : i \in 1..Len(search_queue[c])}

\* C19: once the session of a connection has left Active it is closed and
\* stays closed, its three queue processors are cancelled, its three queues
\* never change again, the requests waiting in them have no response, and
\* nothing more is written to the connection.
C19_Teardown ==
    /\ [](\A c \in Conns :
            sess[c] = "closed" =>
              /\ chatW[c].pc = "cancelled"
              /\ searchW[c].pc = "cancelled"
              /\ videoW[c] = "cancelled"
              /\ ~wsOpen[c]
              /\ \A d \in Waiting(c) : Responses(c, d.requestId) = {})
    /\ [][\A c \in Conns :
            /\ sess[c] = "closed" =>
                  /\ sess'[c] = "closed"
                  /\ sent'[c] = sent[c]
            /\ sess'[c] = "closed" =>
                  /\ chat_queue'[c] = chat_queue[c]
                  /\ video_queue'[c] = video_queue[c]
                  /\ search_queue'[c] = search_queue[c]]_vars

\* a session was closed with requests waiting in two of its queues
C19_Witness ==
    \E c \in Conns :
      /\ sess[c] = "closed"
      /\ Cardinality({q \in {chat_queue, video_queue, search_queue} :
                         q[c] # <<>>}) >= 2

\* C20 (as claimed): once the session of a connection is closed, none of
\* the generation tasks its lane has spawned is still running and none holds
\* an endpoint.
C20_TasksCancelled ==
    \A c \in Conns :
      sess[c] = "closed" =>
        \A t \in TasksOf(c) :
          /\ ~Running(t)
          /\ \A e \in Endpoints : t \notin Holders(e)

\* a required field of the request is missing or empty: the topic id of a
\* chat action, the query of a search, the title or description of a caption
\* or thumbnail request
Invalid(d) ==
    \/ d.action \in ChatActions /\ d.videoId = NoVideoId
    \/ d.action = "search" /\ d.arg = "empty"
    \/ d.action \in {"generate_caption", "generate_thumbnail"} /\ d.arg = "empty"

\* in this step the search processor of c takes a request from its queue
SearchStep(c) ==
    /\ searchW[c].pc = "get" /\ search_queue[c] # <<>>
    /\ search_queue'[c] = Tail(search_queue[c])

\* the frame f is written to connection c in this step, when it is open
Answers(c, f) ==
    sent'[c] = IF wsOpen[c] THEN Append(sent[c], f) ELSE sent[c]

\* C21 as claimed: the step that reads a request failing validation puts it
\* in no queue and writes its success:false response.
C21_NeverQueued ==
    [][\A c \in Conns :
         (ReceiveStep(c) /\ Invalid(Read(c))) =>
           /\ UNCHANGED <<chat_queue, video_queue, search_queue>>
           /\ Len(sent'[c]) = Len(sent[c]) + 1
           /\ sent'[c][Len(sent'[c])].requestId = Read(c).requestId
           /\ ~sent'[c][Len(sent'[c])].success]_vars

\* C21 as amended: a caption or thumbnail request failing validation is
\* answered by the step that reads it, without a collaborator call and
\* without a queue; a chat or search request failing validation is put in
\* its lane's queue unanswered, and the step of the lane's processor that
\* takes it from the queue answers it with success:false and goes back to
\* the queue without a collaborator call.
C21_ValidatedFirst ==
    [][\A c \in Conns :
         /\ (ReceiveStep(c) /\ Invalid(Read(c))) =>
              IF Read(c).action \in {"generate_caption", "generate_thumbnail"}
                THEN /\ UNCHANGED <<chat_queue, video_queue, search_queue>>
                     /\ rx'[c].pc = "recv"
                     /\ Answers(c, [action |-> Read(c).action,
                                    requestId |-> Read(c).requestId,
                                    success |-> FALSE,
                                    error |-> "Missing title or description",
                                    broadcast |-> FALSE, from |-> None,
                                    messages |-> <<>>])
                ELSE /\ sent'[c] = sent[c]
                     /\ IF Read(c).action = "search"
                          THEN Gets(search_queue, c) ELSE Gets(chat_queue, c)
         /\ (SearchStep(c) /\ Head(search_queue[c]).arg = "empty") =>
              /\ searchW'[c].pc = "get"
              /\ Answers(c, [action |-> "search",
                             requestId |-> Head(search_queue[c]).requestId,
                             success |-> FALSE,
                             error |-> "No search query provided",
                             broadcast |-> FALSE, from |-> None,
                             messages |-> <<>>])
         /\ NoTopicStep(c) =>
              /\ chatW'[c].pc = "get"
              /\ chat_rooms' = chat_rooms /\ video_events' = video_events
              /\ Answers(c, [action |-> Head(chat_queue[c]).action,
                             requestId |-> Head(chat_queue[c]).requestId,
                             success |-> FALSE,
                             error |-> "No video ID provided",
                             broadcast |-> FALSE, from |-> None,
                             messages |-> <<>>])]_vars

\* a search without query waited in the queue behind an earlier search and
\* was answered after it
C21_Witness ==
    \E c \in Conns :
      /\ Len(Answered(c, {"search"})) = 2
      /\ Answered(c, {"search"})[1].success
      /\ Answered(c, {"search"})[2].error = "No search query provided"

\* the tasks that begin to hold endpoint e in this step
Acquirers(e) ==
    {t \in TaskIds : /\ task[t].pc # "post"
                     /\ task'[t].pc = "post" /\ task'[t].endpoint = e}

Missing(d) == Invalid(d) \/ (d.action = "generate_video" /\ d.arg = "empty")

\* the entry of the event log or of the room history comes from request d of
\* connection c
From(x, c, d) == x.conn = c /\ x.requestId = d.requestId

\* C23 (as claimed): a request in which a required field is missing never
\* has a success response and has a success:false response once it has been
\* processed (the connection being open); no collaborator is called for it,
\* no task of it sleeps for or holds an endpoint, and no entry of an event
\* log or of a room history comes from it.
C23_RequiredFields ==
    \A c \in Conns : \A k \in 1..Len(submitted[c]) :
      LET d == submitted[c][k]
          t == <<c, d.requestId>>
      IN  Missing(d) =>
            /\ \A i \in Responses(c, d.requestId) : ~sent[c][i].success
            /\ (d.requestId \in finished[c] /\ wsOpen[c])
                 => Responses(c, d.requestId) # {}
            /\ ~(searchW[c].pc = "call" /\ searchW[c].data = d)
            /\ ~(rx[c].pc = "generic" /\ rx[c].data = d)
            /\ t \in TaskIds => task[t].pc \notin {"sleep", "post"}
            /\ \A v \in Topics :
                 /\ \A i \in 1..Len(video_events[v]) :
                       ~From(video_events[v][i], c, d)
                 /\ \A i \in 1..Len(chat_rooms[v].messages) :
                       ~From(chat_rooms[v].messages[i], c, d)

\* the generation processor of c takes a request from its queue and creates
\* a task for it
Admits(c) == VideoPoll(c) /\ video_queue'[c] = Tail(video_queue[c])

Rejected(d) ==
    \/ d.action \in {"unknown", "malformed"}
    \/ d.action \in {"generate_caption", "generate_thumbnail"} /\ ~GenericAwaits(d)

\* C25: a message that fails on the receive path is fault-isolated: the
\* step that reads it writes at most one frame, an error, to the connection;
\* the session stays active with the receive loop at its next read; the
\* three queues, their processors and the generation tasks are as before.
C25_FaultIsolated ==
    [][\A c \in Conns :
         (ReceiveStep(c) /\ Rejected(submitted'[c][Len(submitted'[c])])) =>
            /\ sess'[c] = "active" /\ rx'[c].pc = "recv"
            /\ \/ sent'[c] = sent[c]
               \/ \E f \in {sent'[c][Len(sent'[c])]} :
                    ~f.success /\ sent'[c] = Append(sent[c], f)
            /\ UNCHANGED <<queueVars, chatW, searchW, videoW, active_tasks,
                           task>>]_vars

\* the request id of connection c has been put in a queue
Enqueued(c, id) ==
    \E i \in 1..Len(submitted[c]) :
       submitted[c][i].requestId = id /\ Queued(submitted[c][i])

\* C26: every request put in the chat, search or generation queue of a
\* connection is eventually processed to its end, with its response written
\* to the connection (a generate_video request is thus eventually started,
\* also after other tasks failed or timed out on the pool).
C26_EventuallyAnswered ==
    \A c \in 1..LiveConns : \A id \in 1..LiveReqs :
       Enqueued(c, id) ~> (id \in finished[c] /\ Responses(c, id) # {})

\* every request put in a queue has been answered, one of them by a task
\* that timed out on the pool and one by a task that was handed an endpoint
C26_Witness ==
    /\ TotalSubmitted = LiveReqs
    /\ \A c \in 1..LiveConns : \A id \in 1..LiveReqs :
         Enqueued(c, id) => (id \in finished[c] /\ Responses(c, id) # {})
    /\ \E t \in TimedOutTasks : \E u \in TaskIds :
         task[u].pc = "done" /\ task[u].endpoint # None

\* the queue of the sequential lane of the actions A of connection c
LaneQueue(c, A) == IF A = ChatActions THEN chat_queue[c] ELSE search_queue[c]

\* the requests of that lane that were taken from the queue and whose
\* handling has not come to its end
InProcess(c, A) ==
    {d.requestId : d \in
       {submitted[c][i] : i \in 1..Len(submitted[c])}
       \ {LaneQueue(c, A)[i] : i \in 1..Len(LaneQueue(c, A))}}
    \cap {id \in ReqIds :
            /\ id \notin finished[c]
            /\ \E i \in 1..Len(submitted[c]) :
                 submitted[c][i].requestId = id /\ submitted[c][i].action \in A}

EndedEmpty ==
    {t \in TaskIds : task[t].pc \in {"done", "cancelled"}
                      /\ task[t].endpoint = None /\ task[t].waited > 0}

\* C28: every endpoint in the available queue has busy = false, so an
\* acquirer that finds the queue not empty takes its head and the branch that
\* puts a busy endpoint back is never run; the busy flag of an endpoint is
\* cleared, and the endpoint queued again, only by the task that holds it,
\* never by a task whose acquisition timed out or was cancelled.
C28_QueuedNotBusy ==
    /\ [](/\ \A i \in 1..Len(endpoint_queue) : ~busy[endpoint_queue[i]]
          /\ endpoint_queue # <<>> => TakePos(endpoint_queue, busy) = 1)
    /\ [][\A e \in Endpoints :
            /\ (busy[e] /\ ~busy'[e]) =>
                  \E t \in Holders(e) : task'[t].pc \in {"done", "cancelled"}
            /\ \A t \in TaskIds :
                  (task[t] # task'[t] /\ task[t].endpoint = None
                     /\ task'[t].endpoint = None) =>
                    (busy' = busy /\ endpoint_queue' = endpoint_queue)]_vars

\* an acquisition has ended without an endpoint while one endpoint is held
\* and the other is back in the queue
C28_Witness ==
    /\ EndedEmpty # {}
    /\ \E e \in Endpoints : Holders(e) # {}
    /\ endpoint_queue # <<>>

\* the clip events of the task t in the event log of its content
ClipsOf(t) ==
    LET log == video_events[task[t].data.videoId]
    IN  {i \in 1..Len(log) : log[i] = ClipEvent(t[1], task[t].data)}

\* the task has run generate_video up to the acquisition or beyond
Tried(t) == task[t].pc \in {"sleep", "post", "done", "cancelled"}

Remaining(c, d, visited) ==
    (chat_rooms[d.videoId].connected_clients \ visited) \ {c}

\* C30: the teardown of a session changes neither the rooms nor the event
\* logs; a closed connection leaves the members of a topic only in a step
\* in which a delivery to it raises; and as long as it is a member, a post
\* to the topic can come to it: the poster that takes a chat_message from
\* its queue, or resumes its loop, with the closed connection among the
\* members it has not come to, can attempt the delivery, which raises.
C30_TeardownKeepsRooms ==
    /\ [][\A m \in Conns :
            /\ (sess[m] = "active" /\ sess'[m] = "closed") =>
                  (chat_rooms' = chat_rooms /\ video_events' = video_events)
            /\ (sess[m] = "closed" /\ m \in Clients /\ m \notin Clients') =>
                  FailuresAt(m)' # FailuresAt(m)]_vars
    /\ [](\A c \in Conns : \A m \in Conns :
            /\ (/\ chatW[c].pc = "bcast" /\ sess[m] = "closed"
                /\ m \in Remaining(c, chatW[c].data, chatW[c].visited)
                /\ Cardinality(chat_rooms[chatW[c].data.videoId].connected_clients)
                     = chatW[c].start)
                 => ENABLED (ChatBroadcast(c)
                              /\ Failure(c, chatW[c].data, m) \in failed')
            /\ (/\ chatW[c].pc = "get" /\ chat_queue[c] # <<>>
                /\ Head(chat_queue[c]).action = "chat_message"
                /\ sess[m] = "closed"
                /\ m \in Remaining(c, Head(chat_queue[c]), {}))
                 => ENABLED (ChatGet(c)
                              /\ Failure(c, Head(chat_queue[c]), m) \in failed'))

\* a connection was closed while a member of a topic and is still a member;
\* a post to the topic has been delivered to another member and its loop has
\* not come to the closed connection yet
C30_Witness ==
    \E c \in Conns : \E m \in Conns :
      /\ sess[m] = "closed" /\ m \in Clients
      /\ chatW[c].pc = "bcast"
      /\ m \in Remaining(c, chatW[c].data, chatW[c].visited)

\* positions of x in the sequence q
At(q, x) == {i \in 1..Len(q) : q[i] = x}

\* the request of the post p
Posted(p) == [requestId |-> p.requestId]

\* in this step the chat processor of c takes a chat_message for topic v
\* from its queue
PostStep(c, v) ==
    /\ chatW[c].pc = "get" /\ chat_queue[c] # <<>>
    /\ Head(chat_queue[c]).action = "chat_message"
    /\ Head(chat_queue[c]).videoId = v
    /\ chat_queue'[c] = Tail(chat_queue[c])

\* C31: a chat_message with a valid topic id is stored before it is
\* delivered and is not rolled back.  Every post is once in the history of
\* its room and once in its event log (both below their caps), whatever
\* became of its broadcast; a broadcast or a failed delivery exists only of
\* a post that is stored; a post one of whose deliveries raised is answered
\* (the connection of its sender being open) with success:false 'Chat
\* error'.  The step that takes the post from the queue appends the message
\* and the event, no step removes or reorders what is stored, and a
\* join_chat processed later is answered with the stored messages.
C31_StoredBeforeDelivery ==
    /\ [](/\ \A p \in posted : \E v \in Topics :
               /\ Cardinality(At(chat_rooms[v].messages,
                                  MessageData(p.conn, Posted(p)))) = 1
               /\ Cardinality(At(video_events[v],
                                  ChatEvent(p.conn, Posted(p)))) = 1
          /\ \A m \in Conns : \A i \in 1..Len(sent[m]) :
               sent[m][i].broadcast =>
                 \E p \in posted : /\ p.conn = sent[m][i].from
                                    /\ p.requestId = sent[m][i].requestId
          /\ \A f \in failed :
               /\ \E p \in posted : p.conn = f.conn /\ p.requestId = f.requestId
               /\ wsOpen[f.conn] =>
                    \E i \in Responses(f.conn, f.requestId) :
                       /\ ~sent[f.conn][i].success
                       /\ sent[f.conn][i].error = "Chat error")
    /\ [][\A v \in Topics :
            /\ \A c \in Conns :
                 PostStep(c, v) =>
                   /\ chat_rooms'[v].messages
                        = Append(chat_rooms[v].messages,
                                 MessageData(c, Head(chat_queue[c])))
                   /\ video_events'[v]
                        = Append(video_events[v],
                                 ChatEvent(c, Head(chat_queue[c])))
            /\ Len(chat_rooms'[v].messages) >= Len(chat_rooms[v].messages)
            /\ SubSeq(chat_rooms'[v].messages, 1, Len(chat_rooms[v].messages))
                 = chat_rooms[v].messages
            /\ Len(video_events'[v]) >= Len(video_events[v])
            /\ SubSeq(video_events'[v], 1, Len(video_events[v]))
                 = video_events[v]
            /\ \A c \in Conns :
                 (JoinStep(c, v) /\ wsOpen[c]) =>
                   sent'[c][Len(sent'[c])].messages = chat_rooms[v].messages]_vars

\* a post was delivered to one member, its delivery to another raised, its
\* sender was told 'Chat error', and a join_chat processed later was
\* answered with the message
C31_Witness ==
    \E f \in failed :
      /\ \E i \in Responses(f.conn, f.requestId) :
            sent[f.conn][i].error = "Chat error"
      /\ \E m \in Conns : \E i \in 1..Len(sent[m]) :
            /\ sent[m][i].broadcast
            /\ sent[m][i].from = f.conn /\ sent[m][i].requestId = f.requestId
      /\ \E j \in Conns : \E i \in 1..Len(sent[j]) :
            /\ sent[j][i].action = "join_chat"
            /\ At(sent[j][i].messages,
                  MessageData(f.conn, [requestId |-> f.requestId])) # {}

\* the actions process_generic_request handles on the receive path
SyncActions == {"heartbeat", "generate_caption", "generate_thumbnail", "unknown"}

\* the requestIds of a sequence of requests or frames
Ids(q) == [i \in 1..Len(q) |-> q[i].requestId]

\* C32: the synchronous requests of a connection are handled one after the
\* other on the receive path.  While a generate_caption or
\* generate_thumbnail awaits its collaborator it is the last message read
\* and the only synchronous request without its end, and no step reads a
\* message of the connection, puts one in a queue or ends the session; the
\* responses to the synchronous requests are written in the order the
\* requests arrived, none missing but the last (while it is awaited, or
\* when the transport failed during the wait).
C32_SerialReceive ==
    /\ [](\A c \in Conns :
            LET asked == Ids(Asked(c, SyncActions))
                answered == Ids(Answered(c, SyncActions))
            IN  /\ Len(answered) <= Len(asked)
                /\ answered = SubSeq(asked, 1, Len(answered))
                /\ Len(answered) >= Len(asked) - 1
                /\ rx[c].pc = "generic" =>
                     /\ submitted[c][Len(submitted[c])] = rx[c].data
                     /\ rx[c].data.requestId \notin finished[c]
                     /\ Len(answered) = Len(asked) - 1
                /\ \A i \in 1..Len(submitted[c]) :
                     (/\ submitted[c][i].action \in SyncActions
                      /\ submitted[c][i].requestId \notin finished[c])
                       => (i = Len(submitted[c]) /\ rx[c].pc = "generic"))
    /\ [][\A c \in Conns :
            rx[c].pc = "generic" =>
              /\ submitted'[c] = submitted[c]
              /\ sess'[c] = sess[c]
              /\ Len(chat_queue'[c]) <= Len(chat_queue[c])
              /\ Len(video_queue'[c]) <= Len(video_queue[c])
              /\ Len(search_queue'[c]) <= Len(search_queue[c])]_vars

\* a generate_caption or generate_thumbnail was answered after its
\* collaborator returned, and the synchronous request that arrived after it
\* was answered after it
C32_Witness ==
    \E c \in Conns : \E i \in 1..Len(sent[c]) : \E j \in 1..Len(sent[c]) :
      /\ i < j
      /\ sent[c][i].action \in {"generate_caption", "generate_thumbnail"}
      /\ sent[c][i].success
      /\ sent[c][j].action \in SyncActions
      /\ sent[c][j].requestId > sent[c][i].requestId

====
